---- MODULE Spec2Model ----
(***************************************************************************)
(* Model of csv_to_woocommerce.py: the conversion of an inventory workbook *)
(* (one data frame per sheet) into WooCommerce import records, with the    *)
(* optional image cache of class ImageFetcher.                             *)
(*                                                                         *)
(* Text is modelled as a sequence of one-character strings, so that strip, *)
(* lower, replace and float act on characters as the Python methods do.    *)
(* The fixed wording of a template (an f-string's literal part) is kept    *)
(* as one element.  The empty string '' is the empty sequence.             *)
(***************************************************************************)
EXTENDS Integers, Sequences, FiniteSets, TLC

(***************************************************************************)
(* Bounds of the model.                                                    *)
(***************************************************************************)
\* Longest TOTAL cell text enumerated for the price computation.
MaxCellLen == 3
\* Most sheets of a workbook drawn from the small data frames.
MaxCats == 2
\* Sheets of the long workbooks that run into the 100-product sample cap.
LongCats == 27

(***************************************************************************)
(* Python string methods, on sequences of characters.                      *)
(***************************************************************************)
IsSpace(c) == c = " "

IsDigit(c) == c \in {"0", "1", "2", "3", "4", "5", "6", "7", "8", "9"}

DigitChars == <<"0", "1", "2", "3", "4", "5", "6", "7", "8", "9">>

DigitVal(c) == CHOOSE v \in 0..9 : DigitChars[v + 1] = c

RECURSIVE lstrip(_)
lstrip(s) == IF s # <<>> /\ IsSpace(Head(s)) THEN lstrip(Tail(s)) ELSE s

RECURSIVE rstrip(_)
rstrip(s) ==
  IF s # <<>> /\ IsSpace(s[Len(s)]) THEN rstrip(SubSeq(s, 1, Len(s) - 1)) ELSE s

\* str.strip()
strip(s) == rstrip(lstrip(s))

\* str.replace(old, new) for a one-character old
RECURSIVE replace(_, _, _)
replace(s, old, new) ==
  IF s = <<>> THEN <<>>
  ELSE (IF Head(s) = old THEN new ELSE <<Head(s)>>) \o replace(Tail(s), old, new)

lower_char(c) ==
  CASE c = "A" -> "a" [] c = "B" -> "b" [] c = "I" -> "i" [] c = "N" -> "n"
    [] c = "P" -> "p" [] c = "H" -> "h" [] c = "V" -> "v" [] c = "L" -> "l"
    [] c = "U" -> "u" [] c = "E" -> "e"
    [] OTHER -> c

\* str.lower()
lower(s) == [i \in 1..Len(s) |-> lower_char(s[i])]

\* str(n) of a non-negative int
RECURSIVE str_int(_)
str_int(n) ==
  IF n < 10 THEN <<DigitChars[n + 1]>>
  ELSE str_int(n \div 10) \o <<DigitChars[(n % 10) + 1]>>

RECURSIVE zfill(_, _)
zfill(s, width) == IF Len(s) >= width THEN s ELSE zfill(<<"0">> \o s, width)

\* f"{n}": the number without padding.
MutFormatD(n) == str_int(n)

\* f"{n:04d}"
format_04d(n) == zfill(str_int(n), 4)

(***************************************************************************)
(* Cells of a data frame: a missing cell (NaN), a text cell, or a number   *)
(* cell given by the text str() prints for it.                             *)
(***************************************************************************)
NaN == [t |-> "nan", s |-> <<>>]

Text(s) == [t |-> "str", s |-> s]

Number(s) == [t |-> "num", s |-> s]

\* pd.isna(cell)
isna(cell) == cell.t = "nan"

\* str(cell): NaN prints as 'nan'
str(cell) == IF cell.t = "nan" THEN <<"n", "a", "n">> ELSE cell.s

(***************************************************************************)
(* float(text): the result of Python's float() on a text of digits, sign,  *)
(* point and the word nan; ValueError is TRUE when float() raises.  A      *)
(* parsed number is n / 10^d (n its digits, d those after the point).      *)
(***************************************************************************)
RECURSIVE DigitsValue(_)
DigitsValue(ds) ==
  IF ds = <<>> THEN 0
  ELSE 10 * DigitsValue(SubSeq(ds, 1, Len(ds) - 1)) + DigitVal(ds[Len(ds)])

RECURSIVE Pow10(_)
Pow10(d) == IF d = 0 THEN 1 ELSE 10 * Pow10(d - 1)

float(text) ==
  LET t == strip(text)
      signed == t # <<>> /\ Head(t) \in {"-", "+"}
      neg == t # <<>> /\ Head(t) = "-"
      body == IF signed THEN Tail(t) ELSE t
      dots == {i \in 1..Len(body) : body[i] = "."}
      digs == {i \in 1..Len(body) : IsDigit(body[i])}
      point == IF dots = {} THEN 0 ELSE CHOOSE i \in dots : TRUE
  IN  IF lower(body) = <<"n", "a", "n">>
      THEN [ValueError |-> FALSE, nan |-> TRUE, neg |-> neg, n |-> 0, d |-> 0]
      ELSE IF Cardinality(dots) <= 1 /\ digs # {} /\ digs \cup dots = 1..Len(body)
      THEN [ValueError |-> FALSE, nan |-> FALSE, neg |-> neg,
            n |-> DigitsValue(SelectSeq(body, IsDigit)),
            d |-> IF dots = {} THEN 0 ELSE Len(body) - point]
      ELSE [ValueError |-> TRUE, nan |-> FALSE, neg |-> FALSE, n |-> 0, d |-> 0]

\* precio_total > 0
positive(x) == ~x.nan /\ ~x.neg /\ x.n > 0

\* The tax multiplier 1.03, in hundredths.
TaxMultiplier == 103

\* round(a / b) of positive integers, to the nearest integer.  No quotient
\* taken below lies half way between two integers (the texts enumerated
\* have at most four decimals, and a tie of n / 10^d / 1.03 at the third
\* decimal needs d >= 5).
RoundDiv(a, b) == (2 * a + b) \div (2 * b)

\* round(precio_total / 1.03, 2), in cents
round_price(x) == RoundDiv(x.n * 10000, TaxMultiplier * Pow10(x.d))

VALUE_ERROR == <<"#", "V", "A", "L", "U", "E", "!">>

\* The parse without the test precio_total > 0: a negative total gives a
\* negative price.
MutPrecioDeTexto(total_str) ==
  LET total_limpio == replace(replace(replace(total_str, "€", <<>>), " ", <<>>),
                              ",", <<".">>)
      precio_total == float(total_limpio)
  IN  IF precio_total.ValueError THEN 0
      ELSE IF precio_total.neg THEN 0 - round_price(precio_total)
      ELSE round_price(precio_total)

\* Lines 388-394: the cleaned text is parsed; a ValueError or a total that
\* is not positive gives 0.
precio_de_texto(total_str) ==
  LET total_limpio == replace(replace(replace(total_str, "€", <<>>), " ", <<>>),
                              ",", <<".">>)
      precio_total == float(total_limpio)
  IN  IF precio_total.ValueError THEN 0
      ELSE IF positive(precio_total) THEN round_price(precio_total) ELSE 0

\* Lines 382-394: precio_base of a row's TOTAL cell, in cents.
precio_base(total) ==
  LET total_str == strip(str(total))
  IN  IF isna(total) \/ total_str \in {VALUE_ERROR, <<"n", "a", "n">>, <<>>}
      THEN 0
      ELSE precio_de_texto(total_str)

(***************************************************************************)
(* The WooCommerce schema and the record of one product.                   *)
(***************************************************************************)
\* crear_estructura_woocommerce(): the column names, in order.
crear_estructura_woocommerce ==
  << "ID", "Tipo", "SKU", "GTIN", "Nombre", "Publicado", "¿Está destacado?",
     "Visibilidad en el catálogo", "Descripción corta", "Descripción",
     "Día en que empieza el precio rebajado",
     "Día en que termina el precio rebajado",
     "Estado del impuesto", "Clase de impuesto", "¿Existencias?", "Inventario",
     "Cantidad de bajo inventario", "¿Permitir reservas de productos agotados?",
     "¿Vendido individualmente?", "Peso (kg)", "Longitud (cm)", "Anchura (cm)",
     "Altura (cm)", "¿Permitir valoraciones de clientes?", "Nota de compra",
     "Precio rebajado", "Precio normal", "Categorías", "Etiquetas",
     "Clase de envío", "Imágenes", "Límite de descargas",
     "Días de caducidad de la descarga", "Superior", "Productos agrupados",
     "Ventas dirigidas", "Ventas cruzadas", "URL externa", "Texto del botón",
     "Posición", "Marcas" >>

\* Lines 397-439: the dict producto_wc of one accepted row ('Precio normal'
\* in cents).
producto_wc(contador, fila_, nombre_pagina) ==
  LET nombre == strip(str(fila_["PRODUCTO"]))
  IN  "ID" :> contador
   @@ "Tipo" :> <<"simple">>
   @@ "SKU" :> (<<"S", "K", "U", "-">> \o format_04d(contador))
   @@ "GTIN" :> <<>>
   @@ "Nombre" :> nombre
   @@ "Publicado" :> 1
   @@ "¿Está destacado?" :> 0
   @@ "Visibilidad en el catálogo" :> <<"visible">>
   @@ "Descripción corta" :> (<<"Producto de la categoría ">> \o nombre_pagina)
   @@ "Descripción" :> (<<"Producto ">> \o nombre \o <<" de la categoría ">>
                        \o nombre_pagina)
   @@ "Día en que empieza el precio rebajado" :> <<>>
   @@ "Día en que termina el precio rebajado" :> <<>>
   @@ "Estado del impuesto" :> <<"taxable">>
   @@ "Clase de impuesto" :> <<"standard">>
   @@ "¿Existencias?" :> 1
   @@ "Inventario" :> 100
   @@ "Cantidad de bajo inventario" :> 5
   @@ "¿Permitir reservas de productos agotados?" :> 0
   @@ "¿Vendido individualmente?" :> 0
   @@ "Peso (kg)" :> <<>>
   @@ "Longitud (cm)" :> <<>>
   @@ "Anchura (cm)" :> <<>>
   @@ "Altura (cm)" :> <<>>
   @@ "¿Permitir valoraciones de clientes?" :> 1
   @@ "Nota de compra" :> <<>>
   @@ "Precio rebajado" :> <<>>
   @@ "Precio normal" :> precio_base(fila_["TOTAL"])
   @@ "Categorías" :> nombre_pagina
   @@ "Etiquetas" :> replace(lower(nombre_pagina), " ", <<"-">>)
   @@ "Clase de envío" :> <<>>
   @@ "Imágenes" :> <<>>
   @@ "Límite de descargas" :> <<>>
   @@ "Días de caducidad de la descarga" :> <<>>
   @@ "Superior" :> <<>>
   @@ "Productos agrupados" :> <<>>
   @@ "Ventas dirigidas" :> <<>>
   @@ "Ventas cruzadas" :> <<>>
   @@ "URL externa" :> <<>>
   @@ "Texto del botón" :> <<>>
   @@ "Posición" :> contador
   @@ "Marcas" :> <<>>

\* A cell pandas fills in for a column no record has.
Missing == [t |-> "nan", s |-> <<>>]

\* pd.DataFrame(productos, columns=columnas): each record laid out on the
\* given columns; a column a record lacks is filled with a missing cell and
\* a key that is no column is dropped.
DataFrame(productos, columnas) ==
  [columns |-> columnas,
   rows |-> [i \in 1..Len(productos) |->
               [c \in {columnas[j] : j \in 1..Len(columnas)} |->
                  IF c \in DOMAIN productos[i] THEN productos[i][c] ELSE Missing]]]

(***************************************************************************)
(* Input data frames.  A frame has the set of its column names and its     *)
(* rows; a row maps the columns the program reads (PRODUCTO, TOTAL) that   *)
(* the frame has to their cells, so that reading a column the frame lacks  *)
(* is the KeyError of pandas.                                              *)
(***************************************************************************)
columnas_esperadas == <<"PRODUCTO", "PRECIO", "0,3", "TOTAL">>

TodasLasColumnas == {"PRODUCTO", "PRECIO", "0,3", "TOTAL"}

Fila(cols, producto, total) ==
  [c \in cols \cap {"PRODUCTO", "TOTAL"} |-> IF c = "PRODUCTO" THEN producto ELSE total]

Frame(cols, celdas) ==
  [columns |-> cols,
   rows |-> [i \in 1..Len(celdas) |-> Fila(cols, celdas[i][1], celdas[i][2])]]

\* df.dropna(subset=['PRODUCTO']): the rows whose PRODUCTO cell is not missing.
dropna_PRODUCTO(rows) == SelectSeq(rows, LAMBDA r : ~isna(r["PRODUCTO"]))

Min(a, b) == IF a <= b THEN a ELSE b

\* df.head(n)
head(rows, n) == SubSeq(rows, 1, Min(n, Len(rows)))

\* Lines 293-296: the expected columns a frame lacks.
columnas_faltantes(df) ==
  SelectSeq(columnas_esperadas, LAMBDA col : col \notin df.columns)

\* Line 358: max_productos in sample mode (float('inf') otherwise).
max_productos == 100

\* Line 372: the most products taken of one category in sample mode.
ProductosPorCategoria == 4

\* productos_procesados >= max_productos
cap_alcanzado(solo, procesados) == solo /\ procesados >= max_productos

\* A sample that takes five rows of a category and never looks at the total.
MutFilasDePagina(df, solo, procesados) ==
  IF solo THEN head(dropna_PRODUCTO(df.rows), ProductosPorCategoria + 1)
  ELSE dropna_PRODUCTO(df.rows)

\* Lines 367-375: the rows of a page that the row loop iterates.
filas_de_pagina(df, solo, procesados) ==
  LET df_limpio == dropna_PRODUCTO(df.rows)
      por_categoria == Min(ProductosPorCategoria, Len(df_limpio))
      productos_por_categoria ==
        IF procesados + por_categoria > max_productos
        THEN max_productos - procesados ELSE por_categoria
  IN  IF solo THEN head(df_limpio, productos_por_categoria) ELSE df_limpio

(***************************************************************************)
(* class ImageFetcher.  The cache is a dict from key to path; the disk is  *)
(* the set of image paths that exist and the content of image_cache.json.  *)
(* None and '' are both the empty sequence (the code tests truthiness).    *)
(***************************************************************************)
Letters ==
  {"a", "b", "e", "f", "h", "i", "j", "l", "n", "o", "p", "r", "t", "u", "v",
   "A", "B", "E", "F", "H", "I", "L", "N", "P", "U", "V"}

\* \w of the regular expressions
IsWordChar(c) == IsDigit(c) \/ c = "_" \/ c \in Letters

upper_char(c) ==
  CASE c = "a" -> "A" [] c = "b" -> "B" [] c = "e" -> "E" [] c = "f" -> "F"
    [] c = "h" -> "H" [] c = "i" -> "I" [] c = "j" -> "J" [] c = "l" -> "L"
    [] c = "n" -> "N" [] c = "o" -> "O" [] c = "p" -> "P" [] c = "r" -> "R"
    [] c = "t" -> "T" [] c = "u" -> "U" [] c = "v" -> "V"
    [] OTHER -> c

\* str.upper()
upper(s) == [i \in 1..Len(s) |-> upper_char(s[i])]

IsSep(c) == c = "-" \/ IsSpace(c)

RECURSIVE drop_seps(_)
drop_seps(s) == IF s # <<>> /\ IsSep(Head(s)) THEN drop_seps(Tail(s)) ELSE s

\* re.sub(r'[-\s]+', '-', s)
RECURSIVE collapse(_)
collapse(s) ==
  IF s = <<>> THEN <<>>
  ELSE IF IsSep(Head(s)) THEN <<"-">> \o collapse(drop_seps(s))
  ELSE <<Head(s)>> \o collapse(Tail(s))

\* Line 181: the characters of safe_name kept in the file name.
SafeNameLen == 20

\* A file name made of the sanitized name alone.
MutFilepathSinId(product_name, product_id) ==
  LET kept == SelectSeq(lower(product_name),
                        LAMBDA c : IsWordChar(c) \/ IsSpace(c) \/ c = "-")
      safe_name == collapse(kept)
  IN  <<"product_images/producto-">> \o head(safe_name, SafeNameLen) \o <<".jpg">>

\* Lines 179-182: the path of a product's image file.
filepath(product_name, product_id) ==
  LET kept == SelectSeq(lower(product_name),
                        LAMBDA c : IsWordChar(c) \/ IsSpace(c) \/ c = "-")
      safe_name == collapse(kept)
  IN  <<"product_images/producto-">> \o format_04d(product_id) \o <<"-">>
      \o head(safe_name, SafeNameLen) \o <<".jpg">>

\* Lines 109-131: the placeholder URL.  The colour is picked by hash(), which
\* differs from one process to the next and decides nothing; it is left as
\* the element "{color}".
get_simple_placeholder_image(product_name) ==
  <<"https://dummyimage.com/400x400/", "{color}", "/ffffff&text=">>
  \o upper(replace(head(product_name, 8), " ", <<"+">>))

\* The outcomes of session.get and of writing the file (lines 192-198): the
\* image is written; the request fails before the file is opened; the file
\* is opened and the transfer fails while it is written.
Red == {"ok", "error", "parcial"}

\* A download that does not look for the file first.
MutDownloadSiempre(files_, image_url, product_name, product_id, red) ==
  LET path == filepath(product_name, product_id)
  IN  CASE red = "ok" ->
             [ret |-> path, files |-> files_ \cup {path}, request |-> TRUE]
        [] red = "parcial" ->
             [ret |-> <<>>, files |-> files_ \cup {path}, request |-> TRUE]
        [] OTHER ->
             [ret |-> <<>>, files |-> files_, request |-> TRUE]

\* Lines 173-205.  request: whether session.get was called.
download_image_locally(files_, image_url, product_name, product_id, red) ==
  LET path == filepath(product_name, product_id)
  IN  IF path \in files_
      THEN [ret |-> path, files |-> files_, request |-> FALSE]
      ELSE CASE red = "ok" ->
                  [ret |-> path, files |-> files_ \cup {path}, request |-> TRUE]
             [] red = "parcial" ->
                  [ret |-> <<>>, files |-> files_ \cup {path}, request |-> TRUE]
             [] OTHER ->
                  [ret |-> <<>>, files |-> files_, request |-> TRUE]

\* A key made of the name alone, as get_product_image makes it.
MutCacheKeySinId(product_name, product_id) == lower(strip(product_name))

\* Line 215: f"{product_name.strip().lower()}_{product_id}"
cache_key(product_name, product_id) ==
  lower(strip(product_name)) \o <<"_">> \o str_int(product_id)

\* self.cache[key] = value
Put(cache_, key, value) == (key :> value) @@ cache_

\* A fetcher that never finds a key in its cache.
MutCacheHitNever(cache_, files_, key) == FALSE

\* Lines 216-220: the cached path is returned when the key is cached with a
\* non-empty path whose file exists.
cache_hit(cache_, files_, key) ==
  key \in DOMAIN cache_ /\ cache_[key] # <<>> /\ cache_[key] \in files_

\* Lines 207-236.  The result holds the value returned (ret), the cache and
\* the files afterwards, what the call found: cached (the value the cache
\* held for the key, empty if none) and existed (that value is the path of
\* an existing file); and what it did: hit (returned from the cache),
\* placeholder (a URL was derived), download (download_image_locally was
\* called), request (session.get was called).
get_woocommerce_compatible_image(cache_, files_, product_name, product_id, red) ==
  LET key == cache_key(product_name, product_id)
      quiet == [key |-> key, hit |-> FALSE, placeholder |-> FALSE,
                download |-> FALSE, request |-> FALSE,
                cached |-> IF key \in DOMAIN cache_ THEN cache_[key] ELSE <<>>,
                existed |-> key \in DOMAIN cache_ /\ cache_[key] \in files_]
  IN  IF product_name = <<>> \/ strip(product_name) = <<>>
      THEN quiet @@ [ret |-> <<>>, cache |-> cache_, files |-> files_]
      ELSE IF cache_hit(cache_, files_, key)
      THEN [hit |-> TRUE] @@ quiet
           @@ [ret |-> cache_[key], cache |-> cache_, files |-> files_]
      ELSE LET image_url == get_simple_placeholder_image(product_name)
               dl == download_image_locally(files_, image_url, product_name,
                                            product_id, red)
           IN  [placeholder |-> TRUE, download |-> image_url # <<>>,
                request |-> dl.request] @@ quiet
               @@ [ret |-> dl.ret, files |-> dl.files,
                   cache |-> IF dl.ret # <<>> THEN Put(cache_, key, dl.ret)
                             ELSE cache_]

\* Lines 133-171: the URL variant, keyed by the name alone.  It stores the
\* outcome under the key whatever it is, and returns a cached value only if
\* it is non-empty.
get_product_image(cache_, product_name) ==
  LET key == lower(strip(product_name))
  IN  IF product_name = <<>> \/ strip(product_name) = <<>>
      THEN [ret |-> <<>>, cache |-> cache_, hit |-> FALSE, placeholder |-> FALSE]
      ELSE IF key \in DOMAIN cache_ /\ cache_[key] # <<>>
      THEN [ret |-> cache_[key], cache |-> cache_, hit |-> TRUE,
            placeholder |-> FALSE]
      ELSE LET image_url == get_simple_placeholder_image(product_name)
           IN  [ret |-> image_url, cache |-> Put(cache_, key, image_url),
                hit |-> FALSE, placeholder |-> TRUE]

(***************************************************************************)
(* The workbooks the runs are given.  A behaviour draws every run's        *)
(* workbook and flags from one family: small workbooks of up to MaxCats    *)
(* sheets (lote), long workbooks that reach the sample cap (largo), one    *)
(* row whose TOTAL cell ranges over short texts (precio), and workbooks     *)
(* converted with or without images, run after run, on one disk: of one    *)
(* sheet (imagenes), or with long names or a sheet that cannot be read     *)
(* (nombres).                                                              *)
(***************************************************************************)
Pipa == <<"P", "i", "p", "a">>

Filtro == <<"F", "i", "l", "t", "r", "o">>

Euros103 == Text(<<"1", "0", "3", ",", "0", "0", " ", "€">>)

Euros51 == Text(<<"5", "1", ",", "5", "0", " ", "€">>)

DfInventario ==
  Frame(TodasLasColumnas,
        << <<Text(<<" ">> \o Pipa \o <<" ">>), Euros103>>,
           <<NaN, Text(<<"1">>)>>,
           <<Text(Filtro), NaN>> >>)

DfBlancos ==
  Frame(TodasLasColumnas,
        << <<Text(<<" ">>), Euros51>>,
           <<Text(<<>>), Text(<<"x">>)>>,
           <<Text(Pipa), Text(<<"-", "5">>)>> >>)

DfSinTotal ==
  Frame(TodasLasColumnas \ {"TOTAL"},
        << <<Text(Pipa), NaN>>, <<Text(Filtro), NaN>> >>)

DfSinProducto ==
  Frame(TodasLasColumnas \ {"PRODUCTO"}, << <<NaN, Euros103>> >>)

DfSinPrecio ==
  Frame(TodasLasColumnas \ {"PRECIO", "0,3"},
        << <<Text(Pipa), Number(<<"1", "0", "3", ".", "0">>)>> >>)

DfGrande ==
  Frame(TodasLasColumnas,
        << <<Text(Pipa), Euros103>>, <<NaN, Euros103>>, <<Text(Filtro), Euros51>>,
           <<Text(Pipa), Euros51>>, <<Text(Filtro), Euros103>>,
           <<Text(Pipa), NaN>>, <<Text(Filtro), NaN>> >>)

DfVacio == Frame(TodasLasColumnas, <<>>)

Frames ==
  {DfInventario, DfBlancos, DfSinTotal, DfSinProducto, DfSinPrecio, DfGrande,
   DfVacio}

\* A frame of n named rows.
Uniforme(n) == Frame(TodasLasColumnas, [i \in 1..n |-> <<Text(Pipa), Euros103>>])

\* The sheet names of a workbook are distinct (the keys of a dict).
NombrePagina(i) == <<"H", "o", "j", "a", " ">> \o str_int(i)

Libro(dfs) == [i \in 1..Len(dfs) |-> [nombre_pagina |-> NombrePagina(i), df |-> dfs[i]]]

SeqsUpTo(S, n) == UNION {[1..k -> S] : k \in 0..n}

\* A workbook of n sheets: the first of r0 named rows, the others of r.
Largo(n, r0, r) == Libro([i \in 1..n |-> IF i = 1 THEN Uniforme(r0) ELSE Uniforme(r)])

LibrosLargos ==
  {Largo(3, 10, 10)} \cup {Largo(LongCats, r0, 5) : r0 \in {1, 2, 4, 5}}

CellAlphabet == {"0", "1", "5", ",", ".", "€", " ", "-", "#"}

TotalCells ==
  {Text(s) : s \in SeqsUpTo(CellAlphabet, MaxCellLen)}
  \cup {NaN, Euros103, Euros51,
        Text(<<"n", "a", "n">>), Text(<<"N", "a", "N">>),
        Text(<<" ", "n", "a", "n", " ">>), Text(VALUE_ERROR),
        Text(<<"1", ".", "2", "3", "4", ",", "5", "6">>),
        Text(<<"1", " ", "0", "0", "0", ",", "5", "0", " ", "€">>),
        Number(<<"1", "0", "3", ".", "0">>), Number(<<"1", "0", "3">>),
        Number(<<"-", "1", ".", "5">>), Number(<<"0">>)}

\* Two names of 21 characters that differ only in the last one.
NombreLargo(c) ==
  Pipa \o <<" ">> \o Pipa \o <<" ">> \o Pipa \o <<" ">> \o Pipa \o <<" ">> \o <<c>>

ImgFrames ==
  {Frame(TodasLasColumnas, << <<Text(<<" ">> \o Pipa \o <<" ">>), Euros103>> >>),
   Frame(TodasLasColumnas, << <<NaN, Euros103>>, <<Text(lower(Pipa)), Euros103>> >>),
   Frame(TodasLasColumnas, << <<Text(Filtro), Euros51>>, <<Text(Pipa), Euros103>> >>),
   Frame(TodasLasColumnas, << <<Text(Pipa), Euros103>>, <<Text(Pipa), Euros51>> >>),
   Frame(TodasLasColumnas, << <<Text(<<" ">>), Euros51>> >>),
   Frame(TodasLasColumnas \ {"TOTAL"}, << <<Text(Pipa), NaN>> >>)}

\* A sheet of two long names, and a sheet of one product followed by a sheet
\* without the PRODUCTO column.
LibrosNombres ==
  {Libro(<<Frame(TodasLasColumnas,
                 << <<Text(NombreLargo("a")), Euros103>>,
                    <<Text(NombreLargo("b")), Euros51>> >>)>>),
   Libro(<<Frame(TodasLasColumnas, << <<Text(Filtro), Euros51>> >>), DfSinProducto>>)}

Familias == {"lote", "largo", "precio", "imagenes", "nombres"}

RunConfigs(fam) ==
  CASE fam = "lote" ->
         {[paginas_data |-> Libro(dfs), solo_ejemplo |-> se, agregar_imagenes |-> FALSE] :
            dfs \in SeqsUpTo(Frames, MaxCats), se \in BOOLEAN}
    [] fam = "largo" ->
         {[paginas_data |-> l, solo_ejemplo |-> se, agregar_imagenes |-> FALSE] :
            l \in LibrosLargos, se \in BOOLEAN}
    [] fam = "precio" ->
         {[paginas_data |-> Libro(<<Frame(TodasLasColumnas, << <<Text(Pipa), c>> >>)>>),
           solo_ejemplo |-> FALSE, agregar_imagenes |-> FALSE] : c \in TotalCells}
    [] fam = "nombres" ->
         {[paginas_data |-> l, solo_ejemplo |-> FALSE, agregar_imagenes |-> ai] :
            l \in LibrosNombres, ai \in BOOLEAN}
    [] OTHER ->
         {[paginas_data |-> Libro(<<df>>), solo_ejemplo |-> FALSE, agregar_imagenes |-> ai] :
            df \in ImgFrames, ai \in BOOLEAN}

(***************************************************************************)
(* The state.                                                              *)
(***************************************************************************)
VARIABLES
  familia,                \* the family the runs' workbooks are drawn from
  cache_file,             \* the dict stored in image_cache.json ({} if none)
  files,                  \* the paths that exist under product_images
  pc,                     \* where the program is
  paginas_data,           \* the workbook read: a sequence of (name, frame)
  solo_ejemplo,           \* --ejemplo
  agregar_imagenes,       \* --imagenes
  pagina,                 \* the page the outer loop is at
  df_limpio,              \* the rows the row loop iterates
  fila,                   \* the row the row loop is at
  productos_woocommerce,  \* the records appended so far
  contador_id,
  productos_procesados,
  cache,                  \* image_fetcher.cache
  df_woocommerce,         \* the frame procesar_datos_a_woocommerce returns
  archivo,                \* the CSV file exportar_csv_woocommerce wrote
  avisos,                 \* per page, the missing columns that were reported
  errores,                \* the rows whose mapping raised: <<page, row>>
  origen,                 \* per record, the page and row it was made from
  consultas,              \* per image lookup of the run, what it did
  llamadas                \* how often the run made an ImageFetcher, loaded
                          \* the cache and called save_cache

disk == <<cache_file, files>>

locals ==
  <<pagina, df_limpio, fila, productos_woocommerce, contador_id,
    productos_procesados, cache, errores, origen, consultas, llamadas>>

NoCalls == [ImageFetcher |-> 0, load_cache |-> 0, save_cache |-> 0]

args == <<paginas_data, solo_ejemplo, agregar_imagenes>>

vars == <<familia, disk, pc, args, locals, df_woocommerce, archivo, avisos>>

NoFrame == [columns |-> <<>>, rows |-> <<>>]

NoFile == [written |-> FALSE, header |-> <<>>, rows |-> <<>>]

Init ==
  /\ familia \in Familias
  /\ cache_file = <<>>
  /\ files = {}
  /\ pc = "idle"
  /\ paginas_data = <<>>
  /\ solo_ejemplo = FALSE
  /\ agregar_imagenes = FALSE
  /\ pagina = 1
  /\ df_limpio = <<>>
  /\ fila = 1
  /\ productos_woocommerce = <<>>
  /\ contador_id = 1
  /\ productos_procesados = 0
  /\ cache = <<>>
  /\ df_woocommerce = NoFrame
  /\ archivo = NoFile
  /\ avisos = <<>>
  /\ errores = <<>>
  /\ origen = <<>>
  /\ consultas = <<>>
  /\ llamadas = NoCalls

\* main(), lines 544-570: the flags are read and the workbook is loaded.  The
\* program is run again after it ended only in the families imagenes and
\* nombres: in the others no run changes the disk, and a second run would
\* repeat the first.
Main ==
  /\ pc = "idle" \/ (pc \in {"done", "crashed"} /\ familia \in {"imagenes", "nombres"})
  /\ \E cfg \in RunConfigs(familia) :
       /\ paginas_data' = cfg.paginas_data
       /\ solo_ejemplo' = cfg.solo_ejemplo
       /\ agregar_imagenes' = cfg.agregar_imagenes
  /\ pc' = "verificar"
  /\ pagina' = 1
  /\ df_limpio' = <<>>
  /\ fila' = 1
  /\ productos_woocommerce' = <<>>
  /\ contador_id' = 1
  /\ productos_procesados' = 0
  /\ cache' = <<>>
  /\ df_woocommerce' = NoFrame
  /\ archivo' = NoFile
  /\ avisos' = <<>>
  /\ errores' = <<>>
  /\ origen' = <<>>
  /\ consultas' = <<>>
  /\ llamadas' = NoCalls
  /\ UNCHANGED <<familia, disk>>

\* verificar_estructura_datos, lines 275-307: every page's missing columns
\* are reported and True is returned.
verificar_estructura_datos ==
  /\ pc = "verificar"
  /\ avisos' = [i \in 1..Len(paginas_data) |-> columnas_faltantes(paginas_data[i].df)]
  /\ pc' = "procesar"
  /\ UNCHANGED <<familia, disk, args, locals, df_woocommerce, archivo>>

\* A fetcher that starts from an empty cache whatever the file holds.
MutLoadCacheEmpty(file) == <<>>

\* load_cache(), lines 35-43: the dict stored in the file, {} when there is
\* no file.  The file is only ever written whole by save_cache, so that the
\* json.load of an existing file succeeds.
load_cache(file) == file

\* procesar_datos_a_woocommerce, lines 343-358.  With --imagenes the one
\* ImageFetcher is made, whose cache is load_cache().
IniciarProceso ==
  /\ pc = "procesar"
  /\ cache' = IF agregar_imagenes THEN load_cache(cache_file) ELSE <<>>
  /\ llamadas' = IF agregar_imagenes
                 THEN [llamadas EXCEPT !.ImageFetcher = @ + 1, !.load_cache = @ + 1]
                 ELSE llamadas
  /\ productos_woocommerce' = <<>>
  /\ contador_id' = 1
  /\ productos_procesados' = 0
  /\ pagina' = 1
  /\ pc' = "pagina"
  /\ UNCHANGED <<familia, disk, args, df_limpio, fila, errores, origen, consultas,
                 df_woocommerce, archivo, avisos>>

\* Lines 360-375: the head of the page loop.  dropna raises KeyError when
\* the frame has no PRODUCTO column; nothing catches it.
SiguientePagina ==
  /\ pc = "pagina"
  /\ IF pagina > Len(paginas_data) \/ cap_alcanzado(solo_ejemplo, productos_procesados)
     THEN pc' = "finalizar" /\ UNCHANGED <<df_limpio, fila>>
     ELSE IF "PRODUCTO" \notin paginas_data[pagina].df.columns
     THEN pc' = "crashed" /\ UNCHANGED <<df_limpio, fila>>
     ELSE /\ df_limpio' = filas_de_pagina(paginas_data[pagina].df, solo_ejemplo,
                                          productos_procesados)
          /\ fila' = 1
          /\ pc' = "fila"
  /\ UNCHANGED <<familia, disk, args, pagina, productos_woocommerce, contador_id,
                 productos_procesados, cache, errores, origen, consultas, llamadas,
                 df_woocommerce, archivo, avisos>>

\* The except clause with the counter advanced for the row that raised.
MutFilaOmitidaConsumeId ==
  /\ errores' = Append(errores, <<pagina, fila>>)
  /\ contador_id' = contador_id + 1
  /\ UNCHANGED <<productos_woocommerce, productos_procesados, cache, files, origen,
                 consultas>>

\* The except clause with a record appended for the row that raised.
MutFilaOmitidaAppends ==
  /\ errores' = Append(errores, <<pagina, fila>>)
  /\ productos_woocommerce' =
       Append(productos_woocommerce,
              producto_wc(contador_id, ("TOTAL" :> NaN) @@ df_limpio[fila],
                          paginas_data[pagina].nombre_pagina))
  /\ UNCHANGED <<contador_id, productos_procesados, cache, files, origen, consultas>>

\* What the except clause of lines 453-455 leaves of a row whose mapping
\* raised: the row is logged and the loop goes on.
fila_omitida ==
  /\ errores' = Append(errores, <<pagina, fila>>)
  /\ UNCHANGED <<productos_woocommerce, contador_id, productos_procesados, cache,
                 files, origen, consultas>>

\* A row whose image is looked up under the id of the next record.
MutFilaAceptadaOtroId(f, red) ==
  LET base == producto_wc(contador_id, f, paginas_data[pagina].nombre_pagina)
      nombre_producto == strip(str(f["PRODUCTO"]))
      img == get_woocommerce_compatible_image(cache, files, nombre_producto,
                                              contador_id + 1, red)
      con_imagen == agregar_imagenes /\ img.ret # <<>>
  IN  /\ productos_woocommerce' =
           Append(productos_woocommerce,
                  IF con_imagen THEN [base EXCEPT !["Imágenes"] = img.ret] ELSE base)
      /\ contador_id' = contador_id + 1
      /\ productos_procesados' = productos_procesados + 1
      /\ origen' = Append(origen, [pagina |-> pagina, fila |-> f])
      /\ IF agregar_imagenes
         THEN /\ cache' = img.cache
              /\ files' = img.files
              /\ consultas' =
                   Append(consultas,
                          [product_name |-> nombre_producto,
                           product_id |-> contador_id + 1,
                           key |-> img.key, cached |-> img.cached,
                           existed |-> img.existed,
                           persisted |-> /\ img.key \in DOMAIN cache_file
                                         /\ cache_file[img.key] \in files,
                           hit |-> img.hit,
                           placeholder |-> img.placeholder, download |-> img.download,
                           request |-> img.request, ret |-> img.ret])
         ELSE UNCHANGED <<cache, files, consultas>>
      /\ UNCHANGED errores

\* Lines 396-451: the record is completed with its image and appended.  The
\* lookup is logged with what it found and did, and with whether the cache
\* file held, for its key, the path of a file that existed (persisted).
fila_aceptada(f, red) ==
  LET base == producto_wc(contador_id, f, paginas_data[pagina].nombre_pagina)
      nombre_producto == strip(str(f["PRODUCTO"]))
      img == get_woocommerce_compatible_image(cache, files, nombre_producto,
                                              contador_id, red)
      con_imagen == agregar_imagenes /\ img.ret # <<>>
  IN  /\ productos_woocommerce' =
           Append(productos_woocommerce,
                  IF con_imagen THEN [base EXCEPT !["Imágenes"] = img.ret] ELSE base)
      /\ contador_id' = contador_id + 1
      /\ productos_procesados' = productos_procesados + 1
      /\ origen' = Append(origen, [pagina |-> pagina, fila |-> f])
      /\ IF agregar_imagenes
         THEN /\ cache' = img.cache
              /\ files' = img.files
              /\ consultas' =
                   Append(consultas,
                          [product_name |-> nombre_producto, product_id |-> contador_id,
                           key |-> img.key, cached |-> img.cached,
                           existed |-> img.existed,
                           persisted |-> /\ img.key \in DOMAIN cache_file
                                         /\ cache_file[img.key] \in files,
                           hit |-> img.hit,
                           placeholder |-> img.placeholder, download |-> img.download,
                           request |-> img.request, ret |-> img.ret])
         ELSE UNCHANGED <<cache, files, consultas>>
      /\ UNCHANGED errores

\* Lines 377-455: one iteration of the row loop.  Reading fila['TOTAL'] of a
\* frame without that column raises KeyError inside the try.
ProcesarFila ==
  /\ pc = "fila"
  /\ fila <= Len(df_limpio)
  /\ ~cap_alcanzado(solo_ejemplo, productos_procesados)
  /\ IF "TOTAL" \notin DOMAIN df_limpio[fila]
     THEN fila_omitida
     ELSE \E red \in (IF agregar_imagenes THEN Red ELSE {"ok"}) :
            fila_aceptada(df_limpio[fila], red)
  /\ fila' = fila + 1
  /\ UNCHANGED <<familia, cache_file, pc, args, pagina, df_limpio, llamadas,
                 df_woocommerce, archivo, avisos>>

\* Lines 377-379: the row loop ends, at the last row or at the break.
FinPagina ==
  /\ pc = "fila"
  /\ fila > Len(df_limpio) \/ cap_alcanzado(solo_ejemplo, productos_procesados)
  /\ pagina' = pagina + 1
  /\ pc' = "pagina"
  /\ UNCHANGED <<familia, disk, args, df_limpio, fila, productos_woocommerce,
                 contador_id, productos_procesados, cache, errores, origen,
                 consultas, llamadas, df_woocommerce, archivo, avisos>>

\* The end of the function with save_cache called in every mode.
MutFinalizarGuardaSiempre ==
  /\ pc = "finalizar"
  /\ df_woocommerce' = DataFrame(productos_woocommerce, crear_estructura_woocommerce)
  /\ \E saved \in BOOLEAN : cache_file' = IF saved THEN cache ELSE cache_file
  /\ llamadas' = [llamadas EXCEPT !.save_cache = @ + 1]
  /\ pc' = "exportar"
  /\ UNCHANGED <<familia, files, args, pagina, df_limpio, fila, productos_woocommerce,
                 contador_id, productos_procesados, cache, errores, origen, consultas,
                 archivo, avisos>>

\* The end of the function without the call of save_cache.
MutFinalizarSinGuardar ==
  /\ pc = "finalizar"
  /\ df_woocommerce' = DataFrame(productos_woocommerce, crear_estructura_woocommerce)
  /\ pc' = "exportar"
  /\ UNCHANGED <<familia, disk, args, locals, archivo, avisos>>

\* Lines 457-473: the frame is built and, with --imagenes, save_cache writes
\* the cache; a write that fails leaves the file as it was.
Finalizar ==
  /\ pc = "finalizar"
  /\ df_woocommerce' = DataFrame(productos_woocommerce, crear_estructura_woocommerce)
  /\ IF agregar_imagenes
     THEN /\ \E saved \in BOOLEAN : cache_file' = IF saved THEN cache ELSE cache_file
          /\ llamadas' = [llamadas EXCEPT !.save_cache = @ + 1]
     ELSE UNCHANGED <<cache_file, llamadas>>
  /\ pc' = "exportar"
  /\ UNCHANGED <<familia, files, args, pagina, df_limpio, fila, productos_woocommerce,
                 contador_id, productos_procesados, cache, errores, origen, consultas,
                 archivo, avisos>>

\* to_csv without index=False: the row index is written as a first column.
MutToCsvWithIndex(df) ==
  [written |-> TRUE,
   header |-> <<"">> \o df.columns,
   rows |-> [i \in 1..Len(df.rows) |->
               <<i - 1>> \o [j \in 1..Len(df.columns) |-> df.rows[i][df.columns[j]]]]]

\* df.to_csv: the header is the frame's columns and each row its cells in
\* the order of the columns.
to_csv(df) ==
  [written |-> TRUE,
   header |-> df.columns,
   rows |-> [i \in 1..Len(df.rows) |->
               [j \in 1..Len(df.columns) |-> df.rows[i][df.columns[j]]]]]

\* main(), lines 589-604, and exportar_csv_woocommerce: a frame with rows is
\* written to the CSV file, unless the write fails.
Exportar ==
  /\ pc = "exportar"
  /\ IF Len(df_woocommerce.rows) > 0
     THEN \E ok \in BOOLEAN : archivo' = IF ok THEN to_csv(df_woocommerce) ELSE NoFile
     ELSE archivo' = NoFile
  /\ pc' = "done"
  /\ UNCHANGED <<familia, disk, args, locals, df_woocommerce, avisos>>

\* Outside the program: between two runs an image file is removed from
\* product_images.
BorrarImagen ==
  /\ pc \in {"idle", "done", "crashed"}
  /\ \E p \in files : files' = files \ {p}
  /\ UNCHANGED <<familia, cache_file, pc, args, locals, df_woocommerce, archivo, avisos>>

Next ==
  \/ Main
  \/ verificar_estructura_datos
  \/ IniciarProceso
  \/ SiguientePagina
  \/ ProcesarFila
  \/ FinPagina
  \/ Finalizar
  \/ Exportar
  \/ BorrarImagen

Spec == Init /\ [][Next]_vars

(***************************************************************************)
(* The claims.                                                             *)
(***************************************************************************)
\* procesar_datos_a_woocommerce has returned.
Returned == pc \in {"exportar", "done"}

Pages == 1..Len(paginas_data)

HasColumn(p, col) == col \in paginas_data[p].df.columns

\* The rows of page p whose PRODUCTO cell is not missing, in order.
NamedRows(p) ==
  IF HasColumn(p, "PRODUCTO")
  THEN SelectSeq(paginas_data[p].df.rows, LAMBDA r : r["PRODUCTO"].t # "nan")
  ELSE <<>>

\* The records made from page p, in order.
RecordsOf(p) == SelectSeq(origen, LAMBDA o : o.pagina = p)

\* C1: the k-th record of the output has ID = Posición = k, whatever rows
\* were dropped for a missing name or skipped by an error, in sample mode or
\* not: the ids are 1..N without gap or repeat, N the number of records.
C1_IdsAreOneToN ==
  /\ \A k \in 1..Len(productos_woocommerce) :
       /\ productos_woocommerce[k]["ID"] = k
       /\ productos_woocommerce[k]["Posición"] = k
  /\ Len(origen) = Len(productos_woocommerce)
  /\ Returned =>
       /\ Len(df_woocommerce.rows) = Len(productos_woocommerce)
       /\ \A k \in 1..Len(df_woocommerce.rows) :
            /\ df_woocommerce.rows[k]["ID"] = k
            /\ df_woocommerce.rows[k]["Posición"] = k

\* A finished run that skipped rows by an error, dropped a row without a
\* name, and accepted rows after both.
C1_Witness ==
  /\ pc = "done"
  /\ errores # <<>>
  /\ \E k \in 1..Len(origen) :
       /\ origen[k].pagina > errores[1][1]
       /\ Len(NamedRows(origen[k].pagina)) < Len(paginas_data[origen[k].pagina].df.rows)
  /\ Len(df_woocommerce.rows) >= 2

\* C2: a row whose PRODUCTO cell is missing, empty or only whitespace yields
\* no record.
C2_UnnamedRowsExcluded ==
  \A k \in 1..Len(origen) :
    LET c == origen[k].fila["PRODUCTO"]
    IN  c.t # "nan" /\ strip(str(c)) # <<>>

\* The records expected of pages 1..p in sample mode: every page that can be
\* mapped gives its first named rows, at most 4 and no more than 100 leaves.
RECURSIVE SampleTotal(_)
SampleTotal(p) ==
  IF p = 0 THEN 0
  ELSE LET before == SampleTotal(p - 1)
       IN  before + (IF HasColumn(p, "TOTAL")
                     THEN Min(Min(4, Len(NamedRows(p))), 100 - before)
                     ELSE 0)

IsPrefix(s, t) == Len(s) <= Len(t) /\ s = SubSeq(t, 1, Len(s))

\* C3: in sample mode the output has at most 100 records and at most 4 of a
\* category; the categories contribute in source order, each its first rows
\* with a name, the last one cut so that the total stays within 100; three
\* categories of 10 named rows give 12 records.  Without sample mode every
\* named row of a category that can be mapped gives a record.
C3_SampleCap ==
  /\ solo_ejemplo =>
       /\ Len(productos_woocommerce) <= 100
       /\ \A p \in Pages : Len(RecordsOf(p)) <= 4
  /\ \A j, k \in 1..Len(origen) : j < k => origen[j].pagina <= origen[k].pagina
  /\ \A p \in Pages :
       IsPrefix([i \in 1..Len(RecordsOf(p)) |-> RecordsOf(p)[i].fila], NamedRows(p))
  /\ (Returned /\ solo_ejemplo) =>
       /\ \A p \in Pages : Len(RecordsOf(p)) = SampleTotal(p) - SampleTotal(p - 1)
       /\ paginas_data = Largo(3, 10, 10) => Len(df_woocommerce.rows) = 12
  /\ (Returned /\ ~solo_ejemplo) =>
       \A p \in Pages :
         Len(RecordsOf(p)) = IF HasColumn(p, "TOTAL") THEN Len(NamedRows(p)) ELSE 0

\* A finished sample run of exactly 100 records whose last contributing
\* category was cut below its 4 rows.
C3_Witness ==
  /\ pc = "done"
  /\ solo_ejemplo
  /\ Len(df_woocommerce.rows) = 100
  /\ \E p \in Pages :
       /\ Len(RecordsOf(p)) > 0
       /\ Len(RecordsOf(p)) < Min(4, Len(NamedRows(p)))

\* The price the claim gives for a TOTAL cell: the text without its currency
\* symbol and spaces and with points for commas, parsed; round(v / 1.03, 2)
\* of a positive v, in cents, and 0 otherwise.
ClaimedPrice(cell) ==
  LET text == SelectSeq(str(cell), LAMBDA c : c \notin {"€", " "})
      v == float([i \in 1..Len(text) |-> IF text[i] = "," THEN "." ELSE text[i]])
  IN  IF ~v.ValueError /\ ~v.nan /\ ~v.neg /\ v.n > 0
      THEN (2 * v.n * 10000 + 103 * Pow10(v.d)) \div (2 * 103 * Pow10(v.d))
      ELSE 0

\* C4: 'Precio normal' of every record is non-negative; it is
\* round(v / 1.03, 2) when the row's TOTAL cell parses to a positive v and 0
\* in every other case; '103,00 €' gives 100.00; and no row that has a TOTAL
\* cell is skipped, whatever the cell holds.
C4_PrecioNormal ==
  /\ \A k \in 1..Len(productos_woocommerce) :
       LET c == origen[k].fila["TOTAL"]
           precio == productos_woocommerce[k]["Precio normal"]
       IN  /\ precio >= 0
           /\ precio = ClaimedPrice(c)
           /\ c = Euros103 => precio = 10000
  /\ \A i \in 1..Len(errores) : ~HasColumn(errores[i][1], "TOTAL")
  /\ (pc = "fila" /\ HasColumn(pagina, "TOTAL")) =>
       Len(RecordsOf(pagina)) = fila - 1

\* A finished run whose one row had the TOTAL '103,00 €' and got 100.00.
C4_Witness ==
  /\ pc = "done"
  /\ familia = "precio"
  /\ Len(df_woocommerce.rows) = 1
  /\ origen[1].fila["TOTAL"] = Euros103
  /\ df_woocommerce.rows[1]["Precio normal"] = 10000

\* The retrievals of the run that returned a path from the cache.
Hits == {i \in 1..Len(consultas) : consultas[i].hit}

\* What a call that returns from the cache does, and nothing else.
ReturnedFromCache(c) ==
  c.hit /\ c.ret = c.cached /\ ~c.placeholder /\ ~c.download /\ ~c.request

Kept(d, e) ==
  \A k \in DOMAIN d : d[k] # <<>> => (k \in DOMAIN e /\ e[k] = d[k])

BeforeSave == pc \in {"pagina", "fila", "finalizar"}

C7_OutcomeStored ==
  \A i \in 1..Len(consultas) :
    (~consultas[i].hit /\ strip(consultas[i].product_name) # <<>>)
      => consultas[i].key \in DOMAIN cache

\* The named rows of pages 1..p.
RECURSIVE NamedUpTo(_)
NamedUpTo(p) == IF p = 0 THEN 0 ELSE NamedUpTo(p - 1) + Len(NamedRows(p))

\* C8: a row whose mapping raises gives no record and takes no id, and the
\* loop goes on with the next row of the same page; the only way the batch
\* stops early is a page without the PRODUCTO column, never a row; so that
\* (without sample mode) every named row up to the loop's position, and of
\* the whole workbook when the function returns, was accepted or logged.
C8_RowErrorIsolated ==
  /\ [][Len(errores') > Len(errores) =>
          /\ pc = "fila" /\ pc' = "fila"
          /\ errores' = Append(errores, <<pagina, fila>>)
          /\ productos_woocommerce' = productos_woocommerce
          /\ contador_id' = contador_id
          /\ pagina' = pagina /\ df_limpio' = df_limpio /\ fila' = fila + 1]_vars
  /\ [](pc = "crashed" => ~HasColumn(pagina, "PRODUCTO"))
  /\ []((pc = "fila" /\ ~solo_ejemplo) =>
          Len(productos_woocommerce) + Len(errores) = NamedUpTo(pagina - 1) + fila - 1)
  /\ []((Returned /\ ~solo_ejemplo) =>
          Len(df_woocommerce.rows) + Len(errores) = NamedUpTo(Len(paginas_data)))

\* A finished run with rows that raised, one after the other in one page,
\* and records of a later page.
C8_Witness ==
  /\ pc = "done"
  /\ Len(errores) >= 2
  /\ errores[1][1] = errores[2][1]
  /\ \E k \in 1..Len(origen) : origen[k].pagina > errores[1][1]

\* C9 as stated: every record has exactly 40 fields.
C9_FortyFields ==
  Returned =>
    /\ Len(df_woocommerce.columns) = 40
    /\ \A k \in 1..Len(df_woocommerce.rows) :
         Cardinality(DOMAIN df_woocommerce.rows[k]) = 40

ColumnSet == {crear_estructura_woocommerce[j] : j \in 1..Len(crear_estructura_woocommerce)}

\* C9, amended: every record has exactly the 41 named fields of the schema,
\* all present (none missing, unused ones the empty string), and the
\* exported file has those 41 names, in the schema's order, as its header
\* and one row of 41 cells per record.
C9_FortyOneFields ==
  /\ Returned =>
       /\ Len(df_woocommerce.columns) = 41
       /\ Cardinality(ColumnSet) = 41
       /\ \A k \in 1..Len(df_woocommerce.rows) :
            /\ DOMAIN df_woocommerce.rows[k] = ColumnSet
            /\ DOMAIN productos_woocommerce[k] = ColumnSet
            /\ df_woocommerce.rows[k]["Marcas"] = <<>>
  /\ archivo.written =>
       /\ archivo.header = crear_estructura_woocommerce
       /\ Len(archivo.rows) = Len(productos_woocommerce)
       /\ \A k \in 1..Len(archivo.rows) :
            /\ Len(archivo.rows[k]) = 41
            /\ \A j \in 1..41 :
                 archivo.rows[k][j] = df_woocommerce.rows[k][archivo.header[j]]

\* The file was written with a record in it.
C9_Witness == archivo.written /\ Len(archivo.rows) >= 1

\* C10: a category without one of the expected columns is reported and the
\* run goes on to its end without an uncaught error.
C10_MissingColumnNotFatal ==
  (\E p \in Pages : columnas_faltantes(paginas_data[p].df) # <<>>) =>
    /\ pc # "crashed"
    /\ pc \notin {"idle", "verificar"} =>
         \A p \in Pages : avisos[p] = columnas_faltantes(paginas_data[p].df)

\* The row loop of a run with images is under way or has just ended.
InLoop == agregar_imagenes /\ pc \in {"pagina", "fila", "finalizar"}

\* C11: with images the cache is loaded once, by the one fetcher, before any
\* row is processed; the cache file is written by nothing but the one call
\* of save_cache that follows the row loop, which stores the whole cache;
\* and whether that write succeeds or not the function returns every record
\* with the image path its lookup returned.
C11_CacheLoadedAndSavedOnce ==
  /\ [](InLoop => (llamadas.load_cache = 1 /\ llamadas.save_cache = 0))
  /\ []((pc = "procesar") => (llamadas = NoCalls /\ consultas = <<>>))
  /\ []((agregar_imagenes /\ Returned) =>
          /\ llamadas.load_cache = 1
          /\ llamadas.save_cache = 1
          /\ Len(df_woocommerce.rows) = Len(consultas)
          /\ \A k \in 1..Len(consultas) :
               df_woocommerce.rows[k]["Imágenes"] = consultas[k].ret)
  /\ [][llamadas'.save_cache > llamadas.save_cache =>
          (pc = "finalizar" /\ pc' = "exportar")]_vars
  /\ [][cache_file' # cache_file =>
          (pc = "finalizar" /\ agregar_imagenes /\ cache_file' = cache)]_vars

\* A run with images ended whose save_cache failed (the file does not hold
\* the cache) and whose file has a record with the image it resolved.
C11_Witness ==
  /\ pc = "done"
  /\ agregar_imagenes
  /\ llamadas.save_cache = 1
  /\ cache # <<>>
  /\ cache_file = <<>>
  /\ archivo.written
  /\ \E k \in 1..Len(archivo.rows) : df_woocommerce.rows[k]["Imágenes"] \in files

\* C12: with images one ImageFetcher is made for the run; every accepted row
\* has exactly one lookup, in the order of the records, made with the name
\* and the id of its record; the record's 'Imágenes' is what the lookup
\* returned, the empty string when it returned nothing, and the record is
\* there all the same.  A row that raised has no lookup.
C12_OneLookupPerRecord ==
  agregar_imagenes =>
    /\ llamadas.ImageFetcher = (IF pc \in {"verificar", "procesar"} THEN 0 ELSE 1)
    /\ Len(consultas) = Len(productos_woocommerce)
    /\ \A k \in 1..Len(consultas) :
         /\ consultas[k].product_id = productos_woocommerce[k]["ID"]
         /\ consultas[k].product_name = productos_woocommerce[k]["Nombre"]
         /\ consultas[k].key
              = cache_key(productos_woocommerce[k]["Nombre"], productos_woocommerce[k]["ID"])
         /\ productos_woocommerce[k]["Imágenes"] = consultas[k].ret
    /\ Returned =>
         \A k \in 1..Len(consultas) : df_woocommerce.rows[k]["Imágenes"] = consultas[k].ret

\* A run with images ended with a record whose image failed and, after it,
\* a record with its image.
C12_Witness ==
  /\ pc = "done"
  /\ agregar_imagenes
  /\ Len(df_woocommerce.rows) = 2
  /\ consultas[1].request /\ df_woocommerce.rows[1]["Imágenes"] = <<>>
  /\ df_woocommerce.rows[2]["Imágenes"] = filepath(consultas[2].product_name, 2)
  /\ df_woocommerce.rows[2]["Imágenes"] \in files

\* The names and ids download_image_locally is tried with, on the disk of
\* every state in which a row of a run with images is about to be mapped.
ProbeNames == {Pipa, NombreLargo("a")}

ProbeIds == {1, 2}

\* C13: on every disk a row loop finds, download_image_locally of a name
\* and id whose file exists returns the path of that file, requests nothing
\* and leaves the files as they are; and after a download that succeeded a
\* second call, whatever the network does, returns the same path without a
\* request.  In the runs, a lookup that reaches the download while the file
\* of its record exists issues no request and returns that file.
C13_DownloadIdempotent ==
  /\ [](\A name \in (IF agregar_imagenes /\ pc = "fila" THEN ProbeNames ELSE {}),
            id \in ProbeIds, red \in Red :
          LET url == get_simple_placeholder_image(name)
              path == filepath(name, id)
              first == download_image_locally(files, url, name, id, red)
          IN  /\ path \in files =>
                   first = [ret |-> path, files |-> files, request |-> FALSE]
              /\ first.ret # <<>> =>
                   \A again \in Red :
                     download_image_locally(first.files, url, name, id, again)
                       = [ret |-> first.ret, files |-> first.files, request |-> FALSE])
  /\ [][Len(consultas') > Len(consultas) =>
          LET c == consultas'[Len(consultas')]
              path == filepath(c.product_name, c.product_id)
          IN  (c.download /\ path \in files) =>
                (~c.request /\ c.ret = path /\ files' = files)]_vars

\* A lookup missed the cache, found the file of its record on the disk and
\* returned it without a request.
C13_Witness ==
  \E i \in 1..Len(consultas) :
    /\ consultas[i].download
    /\ ~consultas[i].request
    /\ consultas[i].ret = filepath(consultas[i].product_name, consultas[i].product_id)
    /\ consultas[i].ret \in files

SkuDigits(sku) == SubSeq(sku, 5, Len(sku))

\* C14: the SKU of every record is 'SKU-' followed by four decimal digits
\* whose value is the record's ID (ids stay below 10000 here), the record
\* of id 7 has exactly 'SKU-0007', and two records of a run never have the
\* same SKU.
C14_SkuFromId ==
  /\ \A k \in 1..Len(productos_woocommerce) :
       LET sku == productos_woocommerce[k]["SKU"]
           id == productos_woocommerce[k]["ID"]
       IN  /\ Len(sku) = 8
           /\ SubSeq(sku, 1, 4) = <<"S", "K", "U", "-">>
           /\ \A i \in 5..8 : IsDigit(sku[i])
           /\ DigitsValue(SkuDigits(sku)) = id
           /\ id = 7 => sku = <<"S", "K", "U", "-", "0", "0", "0", "7">>
  /\ \A j, k \in 1..Len(productos_woocommerce) :
       j # k => productos_woocommerce[j]["SKU"] # productos_woocommerce[k]["SKU"]
  /\ Returned =>
       \A k \in 1..Len(df_woocommerce.rows) :
         df_woocommerce.rows[k]["SKU"] = productos_woocommerce[k]["SKU"]

\* A finished run of more than ten records whose seventh has SKU-0007 and
\* whose tenth SKU-0010.
C14_Witness ==
  /\ pc = "done"
  /\ Len(df_woocommerce.rows) > 10
  /\ df_woocommerce.rows[7]["SKU"] = <<"S", "K", "U", "-", "0", "0", "0", "7">>
  /\ df_woocommerce.rows[10]["SKU"] = <<"S", "K", "U", "-", "0", "0", "1", "0">>

\* The pairs of lookups of the run, the first before the second, that were
\* made for the same name (not a blank one).
SameNamePairs ==
  {p \in (1..Len(consultas)) \X (1..Len(consultas)) :
     /\ p[1] < p[2]
     /\ consultas[p[1]].product_name = consultas[p[2]].product_name
     /\ consultas[p[1]].product_name # <<>>}

\* C15 as stated: the second of two rows of a run with the same name is
\* served from the cache and issues no request.
C15_SameNameServedFromCache ==
  \A p \in SameNamePairs : consultas[p[2]].hit /\ ~consultas[p[2]].request

\* C15, amended: two rows of a run with the same name are looked up under
\* different keys, the key ending in the id; the second is never served
\* from what the first stored: if it is a hit, its key came with the cache
\* file, and what it returns is not the path of the first; and a lookup
\* that is not a hit issues a request unless the file of its own record
\* exists already.
C15_SameNameOwnKey ==
  /\ [](\A p \in SameNamePairs :
          LET a == consultas[p[1]]
              b == consultas[p[2]]
          IN  /\ a.key # b.key
              /\ b.ret # <<>> => b.ret # a.ret
              /\ (b.hit /\ InLoop) => b.key \in DOMAIN cache_file)
  /\ [][Len(consultas') > Len(consultas) =>
          LET c == consultas'[Len(consultas')]
          IN  (/\ c.product_name # <<>>
               /\ ~c.hit
               /\ filepath(c.product_name, c.product_id) \notin files)
                => c.request]_vars

\* Two rows of a run had the same name and both requested their image.
C15_Witness ==
  \E p \in SameNamePairs :
    /\ consultas[p[1]].request /\ consultas[p[1]].ret # <<>>
    /\ consultas[p[2]].request /\ consultas[p[2]].ret # <<>>

\* The records that have an image.
WithImage == {k \in 1..Len(productos_woocommerce) :
                productos_woocommerce[k]["Imágenes"] # <<>>}

\* The part of an image path that follows 'producto-NNNN'.
AfterId(path) == SubSeq(path, 6, Len(path))

\* C16: in every run, whatever cache it started from, two records with an
\* image have different image paths, each the path derived from the
\* record's own name and id; and a step that writes an image file writes one
\* file, which did not exist and is the image of no earlier record.
C16_DistinctImagePaths ==
  /\ [](\A j \in WithImage :
          /\ productos_woocommerce[j]["Imágenes"]
               = filepath(productos_woocommerce[j]["Nombre"],
                          productos_woocommerce[j]["ID"])
          /\ \A k \in WithImage \ {j} :
               productos_woocommerce[j]["Imágenes"] # productos_woocommerce[k]["Imágenes"])
  /\ [][(pc = "fila" /\ files' # files) =>
          LET c == consultas'[Len(consultas')]
              path == filepath(c.product_name, c.product_id)
          IN  /\ Len(consultas') = Len(consultas) + 1
              /\ path \notin files
              /\ files' = files \cup {path}
              /\ \A k \in WithImage : productos_woocommerce[k]["Imágenes"] # path]_vars

\* A run that started from an empty cache gave two products of different
\* names, equal in their first 20 sanitized characters, an image each.
C16_Witness ==
  /\ pc = "finalizar"
  /\ cache_file = <<>>
  /\ WithImage = {1, 2}
  /\ productos_woocommerce[1]["Nombre"] # productos_woocommerce[2]["Nombre"]
  /\ AfterId(productos_woocommerce[1]["Imágenes"])
       = AfterId(productos_woocommerce[2]["Imágenes"])
  /\ {productos_woocommerce[1]["Imágenes"], productos_woocommerce[2]["Imágenes"]}
       \subseteq files

\* The program is between its start and its end.
Running == pc \notin {"idle", "done", "crashed"}

\* Record k as line 397-439 build it from its row, before any image.
SinImagen(k) ==
  producto_wc(k, origen[k].fila, paginas_data[origen[k].pagina].nombre_pagina)

\* C17: no step of a run without images changes the cache file or the
\* image directory; such a run makes no ImageFetcher, loads and saves no
\* cache, looks nothing up, and all its records have the empty 'Imágenes'.
\* In both modes a record is, but for 'Imágenes', what its row and its
\* position give, and (without sample mode) the rows that give a record are
\* the named rows of the sheets that have a TOTAL column: a run with images
\* and one without have the same records on the same workbook, 'Imágenes'
\* apart.
C17_NoImagesNoEffect ==
  /\ [][(Running /\ ~agregar_imagenes) => disk' = disk]_vars
  /\ [](~agregar_imagenes =>
          /\ llamadas = NoCalls
          /\ consultas = <<>>
          /\ cache = <<>>
          /\ \A k \in 1..Len(productos_woocommerce) :
               productos_woocommerce[k]["Imágenes"] = <<>>
          /\ Returned =>
               \A k \in 1..Len(df_woocommerce.rows) :
                 df_woocommerce.rows[k]["Imágenes"] = <<>>)
  /\ [](\A k \in 1..Len(productos_woocommerce) :
          [productos_woocommerce[k] EXCEPT !["Imágenes"] = <<>>] = SinImagen(k))
  /\ []((Returned /\ ~solo_ejemplo) =>
          \A p \in Pages :
            [i \in 1..Len(RecordsOf(p)) |-> RecordsOf(p)[i].fila]
              = IF HasColumn(p, "TOTAL") THEN NamedRows(p) ELSE <<>>)

\* A run without images ended, with records, on a disk where an earlier
\* run had left its cache file and its images.
C17_Witness ==
  /\ pc = "done"
  /\ ~agregar_imagenes
  /\ cache_file # <<>>
  /\ files # {}
  /\ archivo.written
  /\ Len(archivo.rows) >= 1

====
